---- MODULE Spec2Model ----
(***************************************************************************)
(* Model of the data pipeline of energy_dashboard.py: one page load runs   *)
(* get_kenya_power_data (one HTTP GET), then process_kenya_data, then the  *)
(* remainder of the script (renewable share, timestamp display).           *)
(*                                                                         *)
(* Numbers.  The script computes with Python ints and floats.  The model   *)
(* computes with exact rationals [num, den] in lowest terms; a float       *)
(* result of the script differs from the modelled value by IEEE rounding   *)
(* only (a relative error of about 1e-16 per operation).                   *)
(***************************************************************************)
EXTENDS Integers, Sequences, FiniteSets, TLC

\* ------------------------------------------------------------------ bounds
\* Largest number of entries of a powerProductionBreakdown mapping.
MaxEntries == 2
\* Breakdown values are the integers -MaxNegative .. MaxValue.
MaxValue == 2
MaxNegative == 1
\* Number of page loads (script runs) explored.
MaxRuns == 2

\* -------------------------------------------------------- exact arithmetic
Abs(i) == IF i < 0 THEN -i ELSE i

RECURSIVE GCD(_, _)
GCD(a, b) == IF b = 0 THEN a ELSE GCD(b, a % b)

\* The rational n/d (d > 0) in lowest terms.
Rat(n, d) ==
    LET g == GCD(Abs(n), d)
    IN  [num |-> n \div g, den |-> d \div g]

Int2Rat(i) == [num |-> i, den |-> 1]
Zero == Int2Rat(0)

RAdd(a, b) == Rat(a.num * b.den + b.num * a.den, a.den * b.den)
RMul(a, b) == Rat(a.num * b.num, a.den * b.den)
\* a / b for b > 0
RDiv(a, b) == Rat(a.num * b.den, a.den * b.num)
RLe(a, b) == a.num * b.den <= b.num * a.den

\* Python's sum(): left to right, starting from 0.
RECURSIVE RSum(_)
RSum(s) == IF s = <<>> THEN Zero ELSE RAdd(RSum(SubSeq(s, 1, Len(s) - 1)), s[Len(s)])

\* ------------------------------------------------------------ static tables
\* KENYA_ENERGY_MIX, in dict (insertion) order; percentages in tenths.
KENYA_ENERGY_MIX ==
    << [source |-> "Hydro",             percentage |-> Rat(362, 10)],
       [source |-> "Geothermal",        percentage |-> Rat(311, 10)],
       [source |-> "Thermal (Oil/Gas)", percentage |-> Rat(127, 10)],
       [source |-> "Wind",              percentage |-> Rat(89, 10)],
       [source |-> "Solar",             percentage |-> Rat(68, 10)],
       [source |-> "Biomass",           percentage |-> Rat(21, 10)],
       [source |-> "Battery Storage",   percentage |-> Rat(12, 10)],
       [source |-> "Imports",           percentage |-> Rat(10, 10)] >>

source_mappings ==
    [ hydro      |-> "Hydro",
      geothermal |-> "Geothermal",
      oil        |-> "Thermal (Oil)",
      gas        |-> "Natural Gas",
      wind       |-> "Wind",
      solar      |-> "Solar",
      biomass    |-> "Biomass",
      battery    |-> "Battery Storage",
      coal       |-> "Coal",
      nuclear    |-> "Nuclear",
      unknown    |-> "Other" ]

\* A wrong renewable set: thermal generation counted as renewable.
renewable_sources_with_thermal ==
    {"Hydro", "Geothermal", "Wind", "Solar", "Biomass", "Thermal (Oil/Gas)", "Thermal (Oil)"}

renewable_sources == {"Hydro", "Geothermal", "Wind", "Solar", "Biomass"}

\* Raw source codes a payload may use as keys: two mapped ones (one
\* renewable, one not) and two unmapped ones, one of which title-cases to
\* the display name of a renewable source.
RawSources == {"hydro", "oil", "tidal", "HYDRO"}

\* str.title() on the raw codes that are not keys of source_mappings.
Title == [ tidal |-> "Tidal", HYDRO |-> "Hydro" ]

\* source_mappings.get(source, source.title())
DisplayName(source) ==
    IF source \in DOMAIN source_mappings THEN source_mappings[source] ELSE Title[source]

\* ------------------------------------------------------------------ payloads
\* A value stored under a breakdown key: JSON null, a number, or something
\* that is not a number (a JSON string).
NullValue == [t |-> "null", n |-> 0]
StrValue  == [t |-> "str",  n |-> 0]
NumValue(i) == [t |-> "num", n |-> i]
Values == {NullValue, StrValue} \cup {NumValue(i) : i \in (0 - MaxNegative)..MaxValue}

Items == [source : RawSources, value : Values]

\* The (key, value) pairs of a JSON object, in document order, keys distinct.
ItemSeqs ==
    UNION { { s \in [1..k -> Items] :
                \A i, j \in 1..k : i # j => s[i].source # s[j].source } :
            k \in 0..MaxEntries }

\* What is stored under 'powerProductionBreakdown': a mapping, null, or a list.
NoBreakdown == [t |-> "absent", items |-> <<>>]
Breakdowns ==
    {[t |-> "null", items |-> <<>>], [t |-> "list", items |-> <<>>]}
      \cup {[t |-> "map", items |-> s] : s \in ItemSeqs}

\* The 'datetime' field of a decoded object: absent, an ISO-8601 string, a
\* string without a 'T', or null.
Datetimes == {"absent", "iso", "plain", "null"}

\* A response body.  type: "malformed" (not JSON), "scalar" (a JSON number,
\* boolean or null), "list" (a JSON array; hasKey: the string
\* 'powerProductionBreakdown' is one of its elements), "dict" (a JSON
\* object; hasKey: it has the key 'powerProductionBreakdown').
Body(type, hasKey, breakdown, dt) ==
    [type |-> type, hasKey |-> hasKey, breakdown |-> breakdown, datetime |-> dt]

None == Body("None", FALSE, NoBreakdown, "absent")
Unread == Body("unread", FALSE, NoBreakdown, "absent")

Bodies ==
    {Body("malformed", FALSE, NoBreakdown, "absent"),
     Body("scalar", FALSE, NoBreakdown, "absent"),
     Body("list", FALSE, NoBreakdown, "absent"),
     Body("list", TRUE, NoBreakdown, "absent")}
      \cup {Body("dict", FALSE, NoBreakdown, dt) : dt \in Datetimes}
      \cup {Body("dict", TRUE, b, dt) : b \in Breakdowns, dt \in Datetimes}

Statuses == {200, 401, 404, 500}

\* What requests.get can do: raise (timeout, connection error) or return a
\* response; the body of a response whose status is not 200 is never read.
Responses ==
    {[kind |-> k, status |-> 0, body |-> Unread] : k \in {"timeout", "connection_error"}}
      \cup {[kind |-> "http", status |-> st, body |-> Unread] : st \in Statuses \ {200}}
      \cup {[kind |-> "http", status |-> 200, body |-> b] : b \in Bodies}

\* -------------------------------------------------------------------- state
VARIABLES
    pc,             \* position of the script in the current run
    run,            \* number of the current page load
    response,       \* outcome of the HTTP GET of this run
    api_data,       \* first result of get_kenya_power_data
    has_live_data,  \* second result of get_kenya_power_data
    warnings,       \* st.warning messages shown in this run
    records,        \* results of process_kenya_data
    timestamp,
    total_mw,
    data_source,
    renewable_pct,  \* the renewable-share metric
    http_gets,      \* HTTP GETs issued in this run
    process_calls   \* calls of process_kenya_data in this run

vars == <<pc, run, response, api_data, has_live_data, warnings, records,
          timestamp, total_mw, data_source, renewable_pct, http_gets, process_calls>>

NoResponse == [kind |-> "none", status |-> 0, body |-> Unread]

FreshRun ==
    /\ pc = "start"
    /\ response = NoResponse
    /\ api_data = None
    /\ has_live_data = FALSE
    /\ warnings = <<>>
    /\ records = <<>>
    /\ timestamp = "unset"
    /\ total_mw = Zero
    /\ data_source = "unset"
    /\ renewable_pct = Zero
    /\ http_gets = 0
    /\ process_calls = 0

Init == run = 1 /\ FreshRun

\* ----------------------------------------------------- get_kenya_power_data
\* str(e) of the exception that the try block of get_kenya_power_data raises
\* on response r, or "" when it raises none.
\*   requests.get raises on a timeout or a connection error;
\*   response.json() raises on a body that is not JSON;
\*   'powerProductionBreakdown' in data raises on a number, boolean or null.
RaisedInFetch(r) ==
    CASE r.kind = "timeout"                            -> "ReadTimeout"
      [] r.kind = "connection_error"                   -> "ConnectionError"
      [] r.status = 200 /\ r.body.type = "malformed"   -> "JSONDecodeError"
      [] r.status = 200 /\ r.body.type = "scalar"      -> "TypeError"
      [] OTHER                                         -> ""

\* 'powerProductionBreakdown' in data, for a decoded list or dict.
Contains(data) == data.hasKey

\* The value returned by get_kenya_power_data on response r, and the
\* warning it shows (at most one).
FetchResult(r) ==
    IF RaisedInFetch(r) # ""
    THEN [data |-> None, live |-> FALSE,
          warned |-> << "Live data unavailable: " \o RaisedInFetch(r) >>]
    ELSE IF r.status = 200 /\ Contains(r.body)
         THEN [data |-> r.body, live |-> TRUE, warned |-> <<>>]
         ELSE [data |-> None, live |-> FALSE, warned |-> <<>>]

get_kenya_power_data ==
    /\ pc = "start"
    /\ \E r \in Responses :
         /\ response' = r
         /\ api_data' = FetchResult(r).data
         /\ has_live_data' = FetchResult(r).live
         /\ warnings' = warnings \o FetchResult(r).warned
    /\ http_gets' = http_gets + 1
    /\ pc' = "fetched"
    /\ UNCHANGED <<run, records, timestamp, total_mw, data_source, renewable_pct,
                   process_calls>>

\* ------------------------------------------------------- process_kenya_data
\* bool(api_data): None is false; a list or dict is true when it is not
\* empty, and one that contains 'powerProductionBreakdown' is not empty.
Truthy(data) == data # None /\ data.hasKey

\* use_live and api_data and 'powerProductionBreakdown' in api_data
TakesLivePath(data, use_live) == use_live /\ Truthy(data) /\ Contains(data)

\* A wrong test: value >= 0 in place of value > 0.
IsNonNegative(value) == value.t # "null" /\ value.n >= 0

\* value is not None and value > 0, for a JSON null or number
IsPositive(value) == value.t # "null" /\ value.n > 0

\* The live branch raises: api_data['powerProductionBreakdown'] on a list
\* (TypeError), mix.items() on a value that is no mapping (AttributeError),
\* value > 0 on a value that is neither None nor a number (TypeError).
LiveRaises(data) ==
    \/ data.type = "list"
    \/ data.breakdown.t # "map"
    \/ \E i \in 1..Len(data.breakdown.items) : data.breakdown.items[i].value.t = "str"

\* The first loop: one record per entry that passes the test, percentage 0.
RECURSIVE LiveAppend(_)
LiveAppend(items) ==
    IF items = <<>> THEN <<>>
    ELSE LET rest == LiveAppend(SubSeq(items, 1, Len(items) - 1))
             it   == items[Len(items)]
         IN  IF IsPositive(it.value)
             THEN Append(rest, [source |-> DisplayName(it.source),
                                value |-> Int2Rat(it.value.n),
                                percentage |-> Zero])
             ELSE rest

\* A wrong total: total += value outside the test, for every value present.
RECURSIVE LiveTotalOfAll(_)
LiveTotalOfAll(items) ==
    IF items = <<>> THEN Zero
    ELSE LET rest == LiveTotalOfAll(SubSeq(items, 1, Len(items) - 1))
             it   == items[Len(items)]
         IN  IF it.value.t # "null" THEN RAdd(rest, Int2Rat(it.value.n)) ELSE rest

\* total after the first loop: total += value for each appended record.
RECURSIVE LiveTotal(_)
LiveTotal(items) ==
    IF items = <<>> THEN Zero
    ELSE LET rest == LiveTotal(SubSeq(items, 1, Len(items) - 1))
             it   == items[Len(items)]
         IN  IF IsPositive(it.value) THEN RAdd(rest, Int2Rat(it.value.n)) ELSE rest

\* (record["value"] / total * 100) if total > 0 else 0
Percentage(value, total) ==
    IF ~RLe(total, Zero) THEN RMul(RDiv(value, total), Int2Rat(100)) ELSE Zero

\* api_data.get('datetime', datetime.now().isoformat())
LiveTimestamp(data) == IF data.datetime = "absent" THEN "now" ELSE data.datetime

LiveResult(data) ==
    LET appended == LiveAppend(data.breakdown.items)
        total    == LiveTotal(data.breakdown.items)
    IN  [records     |-> [i \in 1..Len(appended) |->
                            [appended[i] EXCEPT
                               !.percentage = Percentage(appended[i].value, total)]],
         timestamp   |-> LiveTimestamp(data),
         total       |-> total,
         data_source |-> "Live Data"]

\* A wrong capacity: the 3000 MW of the comment in place of 2800.
EstimatedMW3000(percentage) == RMul(RDiv(percentage, Int2Rat(100)), Int2Rat(3000))

\* (percentage / 100) * 2800
EstimatedMW(percentage) == RMul(RDiv(percentage, Int2Rat(100)), Int2Rat(2800))

\* sum(KENYA_ENERGY_MIX.values()) * 28
FallbackTotal ==
    RMul(RSum([i \in 1..Len(KENYA_ENERGY_MIX) |-> KENYA_ENERGY_MIX[i].percentage]),
         Int2Rat(28))

FallbackResult ==
    [records     |-> [i \in 1..Len(KENYA_ENERGY_MIX) |->
                        [source     |-> KENYA_ENERGY_MIX[i].source,
                         value      |-> EstimatedMW(KENYA_ENERGY_MIX[i].percentage),
                         percentage |-> KENYA_ENERGY_MIX[i].percentage]],
     timestamp   |-> "now",
     total       |-> FallbackTotal,
     data_source |-> "Estimated Data"]

process_kenya_data ==
    /\ pc = "fetched"
    /\ process_calls' = process_calls + 1
    /\ IF TakesLivePath(api_data, has_live_data) /\ LiveRaises(api_data)
       THEN /\ pc' = "process_raised"
            /\ UNCHANGED <<records, timestamp, total_mw, data_source>>
       ELSE LET result == IF TakesLivePath(api_data, has_live_data)
                          THEN LiveResult(api_data)
                          ELSE FallbackResult
            IN  /\ pc' = "processed"
                /\ records' = result.records
                /\ timestamp' = result.timestamp
                /\ total_mw' = result.total
                /\ data_source' = result.data_source
    /\ UNCHANGED <<run, response, api_data, has_live_data, warnings, renewable_pct,
                   http_gets>>

\* ------------------------------------------------------ rest of the script
\* sum([r['percentage'] for r in records if r['source'] in renewable_sources])
RenewableShare(recs) ==
    LET kept == SelectSeq(recs, LAMBDA r : r.source \in renewable_sources)
    IN  RSum([i \in 1..Len(kept) |-> kept[i].percentage])

\* 'T' in timestamp raises TypeError when the payload's datetime is null.
TimestampRaises(ts) == ts = "null"

\* The script after process_kenya_data: the metrics are computed and shown;
\* the "Last Updated" metric raises on a timestamp that is no string.
render ==
    /\ pc = "processed"
    /\ renewable_pct' = RenewableShare(records)
    /\ pc' = IF TimestampRaises(timestamp) THEN "render_raised" ELSE "done"
    /\ UNCHANGED <<run, response, api_data, has_live_data, warnings, records,
                   timestamp, total_mw, data_source, http_gets, process_calls>>

Ended == pc \in {"done", "process_raised", "render_raised"}

\* The next page load: the script runs again from the top.
reload ==
    /\ Ended
    /\ run < MaxRuns
    /\ run' = run + 1
    /\ pc' = "start"
    /\ response' = NoResponse
    /\ api_data' = None
    /\ has_live_data' = FALSE
    /\ warnings' = <<>>
    /\ records' = <<>>
    /\ timestamp' = "unset"
    /\ total_mw' = Zero
    /\ data_source' = "unset"
    /\ renewable_pct' = Zero
    /\ http_gets' = 0
    /\ process_calls' = 0

Next == get_kenya_power_data \/ process_kenya_data \/ render \/ reload

Spec == Init /\ [][Next]_vars

\* ================================================================== claims
\* process_kenya_data has returned in this run.
Returned == pc \in {"processed", "done", "render_raised"}

Percentages(recs) == [i \in 1..Len(recs) |-> recs[i].percentage]
RecordValues(recs) == [i \in 1..Len(recs) |-> recs[i].value]

\* The entries of a breakdown whose value is a number > 0, in order.
PositiveEntries(items) ==
    SelectSeq(items, LAMBDA it : it.value.t = "num" /\ it.value.n > 0)

\* A breakdown field that is a mapping from source code to number (or null).
IsNumericMapping(b) ==
    /\ b.t = "map"
    /\ \A i \in 1..Len(b.items) : b.items[i].value.t \in {"num", "null"}

\* C1: process_kenya_data never raises: once called on (None, False) or on
\* (data, True) with data a decoded object that has the key
\* 'powerProductionBreakdown', whatever is stored under it, it has returned
\* a tuple whose label is "Live Data" or "Estimated Data".
C1_NormalizeNeverFails ==
    (process_calls > 0 /\ (api_data = None \/ api_data.type = "dict")) =>
        /\ pc # "process_raised"
        /\ data_source \in {"Live Data", "Estimated Data"}

\* C2: get_kenya_power_data returns (data, True) only for status 200 with a
\* decoded object whose breakdown field is a mapping from source code to
\* number, and returns (None, False) for every other status, a timeout, a
\* network error, a malformed body or a missing breakdown field.
C2_SuccessOnlyForNumericMapping ==
    pc # "start" =>
        /\ has_live_data =>
              /\ response.kind = "http" /\ response.status = 200
              /\ response.body.type = "dict" /\ response.body.hasKey
              /\ IsNumericMapping(response.body.breakdown)
        /\ (\/ response.kind # "http"
            \/ response.status # 200
            \/ response.body.type \in {"malformed", "scalar"}
            \/ ~response.body.hasKey) => (api_data = None /\ ~has_live_data)

\* C3: a successful fetch whose breakdown mapping is empty gives the
\* fallback result: the 8 fallback records, total 2800, "Estimated Data".
C3_EmptyBreakdownFallsBack ==
    (/\ Returned
     /\ has_live_data
     /\ api_data.type = "dict"
     /\ api_data.breakdown = [t |-> "map", items |-> <<>>]) =>
        /\ records = FallbackResult.records
        /\ total_mw = Int2Rat(2800)
        /\ data_source = "Estimated Data"

\* C4: whenever the fetch failed, whatever the cause, the records are the 8
\* entries of KENYA_ENERGY_MIX in table order (same names, same
\* percentages, value = percentage / 100 * 2800), the percentages sum to
\* 100, the total is 2800 and the label is "Estimated Data".
C4_FallbackOnFetchFailure ==
    (Returned /\ ~has_live_data) =>
        /\ Len(records) = 8
        /\ Len(KENYA_ENERGY_MIX) = 8
        /\ \A i \in 1..8 :
              /\ records[i].source = KENYA_ENERGY_MIX[i].source
              /\ records[i].percentage = KENYA_ENERGY_MIX[i].percentage
              /\ records[i].value =
                     Rat(records[i].percentage.num * 2800,
                         records[i].percentage.den * 100)
        /\ RSum(Percentages(records)) = Int2Rat(100)
        /\ total_mw = Int2Rat(2800)
        /\ data_source = "Estimated Data"

\* C4 witness: a run whose GET timed out has produced the fallback records.
C4_Witness ==
    /\ pc = "processed"
    /\ response.kind = "timeout"
    /\ ~has_live_data
    /\ Len(records) = 8

\* C5: every fetch failure, of whatever kind, shows a warning with its
\* cause, degrades to the fallback data and does not end the run in an
\* exception.
C5_EveryFailureWarned ==
    (pc # "start" /\ ~has_live_data) =>
        /\ Len(warnings) > 0
        /\ pc # "process_raised"
        /\ Returned => data_source = "Estimated Data"

\* C6: on the live path, for a breakdown with at least one entry > 0, the
\* percentages of the records sum to 100, each being value / total * 100
\* with total the sum of the values of the records.
C6_LivePercentagesSumTo100 ==
    (/\ Returned
     /\ data_source = "Live Data"
     /\ PositiveEntries(api_data.breakdown.items) # <<>>) =>
        /\ total_mw = RSum(RecordValues(records))
        /\ \A i \in 1..Len(records) :
              RMul(records[i].percentage, total_mw) = RMul(records[i].value, Int2Rat(100))
        /\ RSum(Percentages(records)) = Int2Rat(100)

\* C6 witness: a live result of two records whose shares are thirds.
C6_Witness ==
    /\ pc = "processed"
    /\ data_source = "Live Data"
    /\ Len(records) = 2
    /\ records[1].percentage.den = 3

\* C7: every record set process_kenya_data returns, live or fallback, is
\* non-empty and its percentages sum to 100.
C7_RecordSetAlwaysComplete ==
    Returned =>
        /\ records # <<>>
        /\ RSum(Percentages(records)) = Int2Rat(100)

\* C8: on the live path an entry whose value is 0, negative or None gives
\* no record and adds nothing to the total, every positive entry gives
\* exactly one record, in order: every record has value > 0 and there are
\* as many records as strictly positive entries.
C8_ZeroFiltering ==
    (Returned /\ data_source = "Live Data") =>
        LET positive == PositiveEntries(api_data.breakdown.items)
        IN  /\ Len(records) = Len(positive)
            /\ \A i \in 1..Len(records) :
                  /\ records[i].value = Int2Rat(positive[i].value.n)
                  /\ records[i].source = DisplayName(positive[i].source)
                  /\ ~RLe(records[i].value, Zero)
            /\ total_mw = RSum([i \in 1..Len(positive) |-> Int2Rat(positive[i].value.n)])

\* C8 witness: a live breakdown of two entries, one of them not positive,
\* has produced one record.
C8_Witness ==
    /\ pc = "processed"
    /\ data_source = "Live Data"
    /\ Len(api_data.breakdown.items) = 2
    /\ \E i \in 1..2 : api_data.breakdown.items[i].value \in {NullValue, NumValue(0), NumValue(-1)}
    /\ Len(records) = 1

\* C9: the renewable share of every result is between 0 and 100 inclusive
\* and is the sum of the percentages of the records whose source is Hydro,
\* Geothermal, Wind, Solar or Biomass; it is 85.1 for the fallback table.
C9_RenewableShare ==
    pc \in {"done", "render_raised"} =>
        LET renewable == SelectSeq(records, LAMBDA r :
                             r.source \in {"Hydro", "Geothermal", "Wind", "Solar", "Biomass"})
        IN  /\ RLe(Zero, renewable_pct)
            /\ RLe(renewable_pct, Int2Rat(100))
            /\ renewable_pct = RSum(Percentages(renewable))
            /\ data_source = "Estimated Data" => renewable_pct = Rat(851, 10)

\* C9 witness: a rendered live result with renewable and other sources.
C9_Witness ==
    /\ pc = "done"
    /\ data_source = "Live Data"
    /\ ~RLe(renewable_pct, Zero)
    /\ ~RLe(Int2Rat(100), renewable_pct)

\* C10: a run issues exactly one HTTP GET (no retry), calls
\* process_kenya_data exactly once and only after the GET returned, and
\* ends with the label "Live Data" or "Estimated Data".
C10_OneFetchOneNormalizeLabelled ==
    /\ http_gets <= 1
    /\ process_calls <= http_gets
    /\ Ended =>
          /\ http_gets = 1
          /\ process_calls = 1
          /\ data_source \in {"Live Data", "Estimated Data"}

====
